---- MODULE Spec2Model ----
(***************************************************************************)
(* Path ORAM engine of src/src/path_oram.h (class PathORAM) driven through *)
(* its public interface read / write / access.                             *)
(*                                                                         *)
(* The template parameters HeightL and BucketSizeZ are state that is fixed *)
(* at construction; the model covers the instantiations of Instantiations. *)
(* A Block (std::array<uint8_t, BlockSizeB>) is modelled by one byte value *)
(* (main.cpp fills every block with a single byte).                        *)
(***************************************************************************)
EXTENDS Integers, Naturals, Sequences, FiniteSets, TLC

VARIABLES
    HeightL,        \* template parameter HeightL
    BucketSizeZ,    \* template parameter BucketSizeZ
    oram,           \* the engine: [buckets, position_map, stash, mt]
    calls,          \* number of public calls made so far
    req,            \* the last public call: [op, blk, b]
    status,         \* how the last call ended: "none", "ok", "OutOfRange", "UB"
    result,         \* the Block the last call left in its in/out argument
    trace,          \* observable events of the last call, in order
    pos,            \* the leaf the last call read from position_map (line 98)
    drawn,          \* the leaves randomPath() returned in the last call
    written,        \* the payload of the most recent write, for each id written
    seeds,          \* SpecRepro: the values rd() gave the two engines' mt
    oram2,          \* SpecRepro: the second engine
    touched,        \* SpecRepro: the bucket events of each engine, all calls
    worldsA,        \* SpecObl: the runs of call sequence A, one per draw vector
    worldsB,        \* SpecObl: the runs of call sequence B, one per draw vector
    callsAB,        \* SpecObl: the two call sequences
    path            \* SpecPath: the last getNodeOnPath(leaf, height) and its value

vars == <<HeightL, BucketSizeZ, oram, calls, req, status, result, trace, pos,
          drawn, written, seeds, oram2, touched, worldsA, worldsB, callsAB, path>>

----------------------------------------------------------------------------
(* Bounds of the model *)

MaxOps == 3

MaxPayload == 2

MaxSeed == 3

MaxOblOps == 2

MaxOblPayload == 1

(* No stash bound exists in the source; this one is the size the stash is   *)
(* shown to exceed.                                                         *)
StashSafetyBound == 1

MaxHeight == 4

(* Template instantiations <<HeightL, BucketSizeZ>> covered by the model *)
Instantiations == {<<0, 1>>, <<1, 1>>, <<0, 2>>}

----------------------------------------------------------------------------
(* Types and constants of the class *)

Payloads == 0..MaxPayload

ZeroBlock == 0

invalid_block == -1

Op == {"Read", "Write"}

bucket_count == (2 ^ (HeightL + 1)) - 1

block_count_N == BucketSizeZ * bucket_count

(* Variant: the distribution's upper bound taken as the number of leaves *)
leaf_dist_b_inclusive == (bucket_count \div 2) + 1

leaf_dist_b == bucket_count \div 2

leaf_dist == 0..leaf_dist_b

ValidIds == 0..(block_count_N - 1)

IDBlock == [id |-> invalid_block, data |-> ZeroBlock]

Bucket == [z \in 0..(BucketSizeZ - 1) |-> IDBlock]

----------------------------------------------------------------------------
(* getNodeOnPath: the loop of lines 208-210, for l = HeightL-1 down to height *)

(* Variant: the parent of node i taken as i / 2 *)
RECURSIVE getNodeOnPath_loop_half(_, _, _)
getNodeOnPath_loop_half(leaf, l, height) ==
    IF l >= height
    THEN getNodeOnPath_loop_half(leaf \div 2, l - 1, height)
    ELSE leaf

RECURSIVE getNodeOnPath_loop(_, _, _)
getNodeOnPath_loop(leaf, l, height) ==
    IF l >= height
    THEN getNodeOnPath_loop(((leaf + 1) \div 2) - 1, l - 1, height)
    ELSE leaf

(* Variant: the loop starts at l = HeightL, one parent step too many *)
getNodeOnPath_from_L(leaf, height) ==
    getNodeOnPath_loop(leaf + (bucket_count \div 2), HeightL, height)

getNodeOnPath(leaf, height) ==
    getNodeOnPath_loop(leaf + (bucket_count \div 2), HeightL - 1, height)

(* Indexing buckets outside [0, bucket_count) is undefined behaviour *)
PathInBounds(leaf) ==
    \A l \in 0..HeightL : getNodeOnPath(leaf, l) \in 0..(bucket_count - 1)

----------------------------------------------------------------------------
(* std::map<size_t, Block> stash: a function on the set of its keys,        *)
(* iterated in ascending key order                                          *)

EmptyStash == [k \in {} |-> ZeroBlock]

stash_emplace(stash, id, data) ==
    IF id \in DOMAIN stash THEN stash
    ELSE [k \in (DOMAIN stash) \cup {id} |-> IF k = id THEN data ELSE stash[k]]

stash_assign(stash, id, data) ==
    [k \in (DOMAIN stash) \cup {id} |-> IF k = id THEN data ELSE stash[k]]

stash_erase(stash, ids) ==
    [k \in (DOMAIN stash) \ ids |-> stash[k]]

Min(S) == CHOOSE x \in S : \A y \in S : x <= y

RECURSIVE Ascending(_)
Ascending(S) ==
    IF S = {} THEN <<>>
    ELSE <<Min(S)>> \o Ascending(S \ {Min(S)})

----------------------------------------------------------------------------
(* readPath (lines 132-144). w is the engine plus the events of the call.   *)

(* Variant: only the first slot of a bucket is copied to the stash *)
readPath_slots_first(stash, bucket, z) ==
    IF bucket[0].id # invalid_block
    THEN stash_emplace(stash, bucket[0].id, bucket[0].data)
    ELSE stash

RECURSIVE readPath_slots(_, _, _)
readPath_slots(stash, bucket, z) ==
    IF z >= BucketSizeZ THEN stash
    ELSE readPath_slots(
            IF bucket[z].id # invalid_block
            THEN stash_emplace(stash, bucket[z].id, bucket[z].data)
            ELSE stash,
            bucket, z + 1)

RECURSIVE readPath_loop(_, _, _)
readPath_loop(w, p, l) ==
    IF l > HeightL THEN w
    ELSE LET node == getNodeOnPath(p, l)
         IN  readPath_loop(
                [w EXCEPT !.stash = readPath_slots(w.stash, w.buckets[node], 0),
                          !.trace = Append(w.trace, <<"read", node>>)],
                p, l + 1)

(* Variant: the loop starts below the root *)
readPath_from_1(w, p) == readPath_loop(w, p, 1)

readPath(w, p) == readPath_loop(w, p, 0)

----------------------------------------------------------------------------
(* Variant: every block of the stash is taken to intersect the node *)
getIntersectingBlocks_any(w, leaf, height) == Ascending(DOMAIN w.stash)

(* getIntersectingBlocks (lines 180-193) *)

(* Variant: the leaves are compared at the given level but the node of the *)
(* path is taken at the leaf level                                          *)
getIntersectingBlocks_leaf_node(w, leaf, height) ==
    LET node == getNodeOnPath(leaf, HeightL)
    IN  Ascending({id \in DOMAIN w.stash :
                      getNodeOnPath(w.position_map[id], height) = node})

getIntersectingBlocks(w, leaf, height) ==
    LET node == getNodeOnPath(leaf, height)
    IN  Ascending({id \in DOMAIN w.stash :
                      getNodeOnPath(w.position_map[id], height) = node})

(* writePath (lines 146-171), for l = HeightL down to 0 *)

(* Variant: every slot is filled with the data of the first valid block *)
writePath_bucket_first(w, valid_blocks) ==
    [z \in 0..(BucketSizeZ - 1) |->
        IF z < Len(valid_blocks) /\ z < BucketSizeZ
        THEN [id |-> valid_blocks[z + 1], data |-> w.stash[valid_blocks[1]]]
        ELSE IDBlock]

writePath_bucket(w, valid_blocks) ==
    [z \in 0..(BucketSizeZ - 1) |->
        IF z < Len(valid_blocks) /\ z < BucketSizeZ
        THEN [id |-> valid_blocks[z + 1], data |-> w.stash[valid_blocks[z + 1]]]
        ELSE IDBlock]

(* Variant: every valid block is erased, also those that found no slot *)
writePath_taken_all(valid_blocks) ==
    {valid_blocks[i] : i \in 1..Len(valid_blocks)}

(* Variant: the blocks copied to the bucket are not erased from the stash *)
writePath_taken_none(valid_blocks) == {}

(* Variant: the blocks erased are the last of valid_blocks, not the first *)
writePath_taken_last(valid_blocks) ==
    {valid_blocks[i] :
        i \in (Len(valid_blocks) + 1
                 - (IF Len(valid_blocks) < BucketSizeZ
                    THEN Len(valid_blocks) ELSE BucketSizeZ))
              ..Len(valid_blocks)}

writePath_taken(valid_blocks) ==
    {valid_blocks[i] : i \in 1..(IF Len(valid_blocks) < BucketSizeZ
                                 THEN Len(valid_blocks) ELSE BucketSizeZ)}

RECURSIVE writePath_loop(_, _, _)
writePath_loop(w, p, l) ==
    IF l < 0 THEN w
    ELSE LET node == getNodeOnPath(p, l)
             valid_blocks == getIntersectingBlocks(w, p, l)
         IN  writePath_loop(
                [w EXCEPT !.buckets[node] = writePath_bucket(w, valid_blocks),
                          !.stash = stash_erase(w.stash, writePath_taken(valid_blocks)),
                          !.trace = Append(w.trace, <<"write", node>>)],
                p, l - 1)

(* Variant: the buckets of the path are filled from the root to the leaf *)
RECURSIVE writePath_loop_up(_, _, _)
writePath_loop_up(w, p, l) ==
    IF l > HeightL THEN w
    ELSE LET node == getNodeOnPath(p, l)
             valid_blocks == getIntersectingBlocks(w, p, l)
         IN  writePath_loop_up(
                [w EXCEPT !.buckets[node] = writePath_bucket(w, valid_blocks),
                          !.stash = stash_erase(w.stash, writePath_taken(valid_blocks)),
                          !.trace = Append(w.trace, <<"write", node>>)],
                p, l + 1)

writePath_root_first(w, p) == writePath_loop_up(w, p, 0)

writePath(w, p) == writePath_loop(w, p, HeightL)

----------------------------------------------------------------------------
(* access (lines 93-120). r is the value randomPath() returns at line 99.   *)
(* The result is the engine after the call together with what the call      *)
(* leaves behind: status, the in/out block b, the events and the old leaf.  *)
(* Indexing buckets outside [0, bucket_count) is undefined behaviour: the    *)
(* call is then recorded as "UB" and nothing more is said about its effect. *)

access_switch(w, op, blk, b) ==
    IF op = "Read"
    THEN [w EXCEPT !.stash = stash_emplace(w.stash, blk, ZeroBlock),
                   !.b = stash_emplace(w.stash, blk, ZeroBlock)[blk]]
    ELSE [w EXCEPT !.stash = stash_assign(w.stash, blk, b)]

(* Variant: the leaf is drawn but position_map[blk] keeps its old value *)
access_no_remap(w, blk, r) ==
    [w EXCEPT !.mt = w.mt + 1,
              !.drawn = Append(w.drawn, r),
              !.trace = Append(w.trace, <<"remap", blk>>)]

access_remap(w, blk, r) ==
    [w EXCEPT !.position_map[blk] = r,
              !.mt = w.mt + 1,
              !.drawn = Append(w.drawn, r),
              !.trace = Append(w.trace, <<"remap", blk>>)]

(* Variant: a Write does not read the path before it writes it back *)
access_body_write_blind(w, op, blk, b, r) ==
    LET p  == w.position_map[blk]
        w1 == access_remap(w, blk, r)
    IN  IF ~PathInBounds(p)
        THEN [w1 EXCEPT !.status = "UB", !.pos = p]
        ELSE IF op = "Write"
        THEN [writePath(access_switch(w1, op, blk, b), p)
                 EXCEPT !.status = "ok", !.pos = p]
        ELSE [writePath(access_switch(readPath(w1, p), op, blk, b), p)
                 EXCEPT !.status = "ok", !.pos = p]

(* Variant: lines 98 and 99 swapped, the path is read along the new leaf *)
access_body_read_new(w, op, blk, b, r) ==
    LET w1 == access_remap(w, blk, r)
        p  == w1.position_map[blk]
    IN  IF ~PathInBounds(p)
        THEN [w1 EXCEPT !.status = "UB", !.pos = p]
        ELSE [writePath(access_switch(readPath(w1, p), op, blk, b), p)
                 EXCEPT !.status = "ok", !.pos = p]

(* Variant: the call fails when it leaves more than StashSafetyBound blocks *)
(* in the stash                                                             *)
access_body_stash_checked(w, op, blk, b, r) ==
    LET p  == w.position_map[blk]
        w1 == access_remap(w, blk, r)
        w2 == writePath(access_switch(readPath(w1, p), op, blk, b), p)
    IN  IF ~PathInBounds(p)
        THEN [w1 EXCEPT !.status = "UB", !.pos = p]
        ELSE IF Cardinality(DOMAIN w2.stash) > StashSafetyBound
        THEN [w2 EXCEPT !.status = "StashOverflow", !.pos = p]
        ELSE [w2 EXCEPT !.status = "ok", !.pos = p]

(* Variant: the path is written back along the new leaf *)
access_body_write_new(w, op, blk, b, r) ==
    LET p  == w.position_map[blk]
        w1 == access_remap(w, blk, r)
    IN  IF ~PathInBounds(p)
        THEN [w1 EXCEPT !.status = "UB", !.pos = p]
        ELSE [writePath(access_switch(readPath(w1, p), op, blk, b), r)
                 EXCEPT !.status = "ok", !.pos = p]

access_body(w, op, blk, b, r) ==
    LET p  == w.position_map[blk]
        w1 == access_remap(w, blk, r)
    IN  IF ~PathInBounds(p)
        THEN [w1 EXCEPT !.status = "UB", !.pos = p]
        ELSE [writePath(access_switch(readPath(w1, p), op, blk, b), p)
                 EXCEPT !.status = "ok", !.pos = p]

(* Variant: the new leaf is drawn before the range check *)
access_draw_first(e, op, blk, b, r) ==
    LET w == [buckets |-> e.buckets, position_map |-> e.position_map,
              stash |-> e.stash, mt |-> e.mt,
              trace |-> <<>>, drawn |-> <<>>, status |-> "none", pos |-> 0,
              b |-> b]
    IN  IF blk >= block_count_N
        THEN [w EXCEPT !.status = "OutOfRange", !.mt = e.mt + 1]
        ELSE access_body(w, op, blk, b, r)

access(e, op, blk, b, r) ==
    LET w == [buckets |-> e.buckets, position_map |-> e.position_map,
              stash |-> e.stash, mt |-> e.mt,
              trace |-> <<>>, drawn |-> <<>>, status |-> "none", pos |-> 0,
              b |-> b]
    IN  IF blk >= block_count_N
        THEN [w EXCEPT !.status = "OutOfRange"]
        ELSE access_body(w, op, blk, b, r)

Engine(w) ==
    [buckets |-> w.buckets, position_map |-> w.position_map,
     stash |-> w.stash, mt |-> w.mt]

----------------------------------------------------------------------------
(* Constructor (lines 53-60): empty buckets, one randomPath() per id *)

PathORAM(pm) ==
    [buckets      |-> [n \in 0..(bucket_count - 1) |-> Bucket],
     position_map |-> pm,
     stash        |-> EmptyStash,
     mt           |-> block_count_N]

(* The variables a specification does not use *)
NoTwin == /\ seeds = <<0, 0>> /\ oram2 = EmptyStash /\ touched = <<>>

NoWorlds == /\ worldsA = {} /\ worldsB = {} /\ callsAB = <<>>

NoPath == path = <<>>

NoCall ==
    /\ calls = 0
    /\ req = [op |-> "none", blk |-> 0, b |-> ZeroBlock]
    /\ status = "none"
    /\ result = ZeroBlock
    /\ trace = <<>>
    /\ pos = 0
    /\ drawn = <<>>
    /\ written = EmptyStash

Init ==
    /\ \E c \in Instantiations : HeightL = c[1] /\ BucketSizeZ = c[2]
    /\ \E pm \in [0..(block_count_N - 1) -> leaf_dist] : oram = PathORAM(pm)
    /\ NoCall
    /\ NoTwin
    /\ NoWorlds
    /\ NoPath

(* One public call, run to completion *)
Call(op, blk, b, r) ==
    /\ calls < MaxOps
    /\ \E w \in {access(oram, op, blk, b, r)} :
        /\ calls' = calls + 1
        /\ req' = [op |-> op, blk |-> blk, b |-> b]
        /\ oram' = Engine(w)
        /\ status' = w.status
        /\ result' = w.b
        /\ trace' = w.trace
        /\ pos' = w.pos
        /\ drawn' = w.drawn
        /\ written' = IF op = "Write" /\ w.status = "ok"
                      THEN stash_assign(written, blk, b)
                      ELSE written
        /\ UNCHANGED <<HeightL, BucketSizeZ, seeds, oram2, touched,
                       worldsA, worldsB, callsAB, path>>

(* read (lines 83-87) *)
read ==
    \E blk \in 0..(block_count_N + 1) : \E r \in leaf_dist :
        Call("Read", blk, ZeroBlock, r)

(* write (lines 89-91) *)
write ==
    \E blk \in 0..(block_count_N + 1) : \E b \in Payloads : \E r \in leaf_dist :
        Call("Write", blk, b, r)

Next == read \/ write

Spec == Init /\ [][Next]_vars

----------------------------------------------------------------------------
(* Two engines given the same calls.                                        *)
(* The constructor seeds mt with rd() (line 56) and every leaf is           *)
(* leaf_dist(mt) (line 129). std::mt19937 and uniform_int_distribution are  *)
(* deterministic functions of the generator's state; a small linear         *)
(* congruential generator stands for them here. The field mt of an engine   *)
(* counts the draws made, so the generator's state is mt steps from the     *)
(* seed.                                                                    *)

Seeds == 0..MaxSeed

RECURSIVE mt19937(_, _)
mt19937(seed, n) ==
    IF n = 0 THEN seed ELSE ((5 * mt19937(seed, n - 1)) + 3) % 16

(* Variant: the leaf is drawn from the entropy source, not from mt *)
randomPath_rd(seed, n) == leaf_dist

(* randomPath (lines 128-130): the values the next draw can have *)
randomPath(seed, n) ==
    {(mt19937(seed, n + 1) \div 2) % (leaf_dist_b + 1)}

(* The events of a call that touch a bucket *)
Touched(tr) == SelectSeq(tr, LAMBDA ev : ev[1] # "remap")

InitRepro ==
    /\ \E c \in Instantiations : HeightL = c[1] /\ BucketSizeZ = c[2]
    /\ seeds \in Seeds \X Seeds
    /\ \E pm1 \in [0..(block_count_N - 1) -> leaf_dist] :
       \E pm2 \in [0..(block_count_N - 1) -> leaf_dist] :
          /\ \A i \in 0..(block_count_N - 1) :
                /\ pm1[i] \in randomPath(seeds[1], i)
                /\ pm2[i] \in randomPath(seeds[2], i)
          /\ oram = PathORAM(pm1)
          /\ oram2 = PathORAM(pm2)
    /\ touched = <<<<>>, <<>>>>
    /\ NoCall
    /\ NoWorlds
    /\ NoPath

(* The same call made on both engines *)
ReproCall(op, blk, b) ==
    /\ calls < MaxOps
    /\ \E r1 \in randomPath(seeds[1], oram.mt) :
       \E r2 \in randomPath(seeds[2], oram2.mt) :
       \E w1 \in {access(oram, op, blk, b, r1)} :
       \E w2 \in {access(oram2, op, blk, b, r2)} :
          /\ calls' = calls + 1
          /\ req' = [op |-> op, blk |-> blk, b |-> b]
          /\ oram' = Engine(w1)
          /\ oram2' = Engine(w2)
          /\ touched' = <<touched[1] \o Touched(w1.trace),
                          touched[2] \o Touched(w2.trace)>>
          /\ status' = w1.status
          /\ result' = w1.b
          /\ trace' = w1.trace
          /\ pos' = w1.pos
          /\ drawn' = w1.drawn
          /\ written' = IF op = "Write" /\ w1.status = "ok"
                        THEN stash_assign(written, blk, b)
                        ELSE written
          /\ UNCHANGED <<HeightL, BucketSizeZ, seeds, worldsA, worldsB, callsAB,
                         path>>

ReproRead ==
    \E blk \in 0..block_count_N : ReproCall("Read", blk, ZeroBlock)

ReproWrite ==
    \E blk \in 0..block_count_N : \E b \in Payloads : ReproCall("Write", blk, b)

NextRepro == ReproRead \/ ReproWrite

SpecRepro == InitRepro /\ [][NextRepro]_vars

----------------------------------------------------------------------------
(* Every run of two call sequences.                                         *)
(* A world is one run of a call sequence under one vector of draws (the N   *)
(* draws of the constructor, then one per call): the engine it ends in, the *)
(* draws made and the bucket events seen. Every draw is uniform over        *)
(* leaf_dist, so all the worlds of a sequence are equally likely and the    *)
(* probability of a trace is the share of the worlds that show it.          *)

ValidCalls ==
    {[op |-> "Read", blk |-> id, b |-> ZeroBlock] : id \in ValidIds}
       \cup {[op |-> "Write", blk |-> id, b |-> v] :
                 id \in ValidIds, v \in 0..MaxOblPayload}

InitialWorlds ==
    {[eng |-> PathORAM(pm), draws |-> <<pm>>, obs |-> <<>>] :
        pm \in [0..(block_count_N - 1) -> leaf_dist]}

Advance(worlds, c) ==
    UNION {{[eng   |-> Engine(a),
             draws |-> Append(x[1].draws, x[2]),
             obs   |-> x[1].obs \o Touched(a.trace)] :
               a \in {access(x[1].eng, c.op, c.blk, c.b, x[2])}} :
           x \in worlds \X leaf_dist}

InitObl ==
    /\ \E c \in Instantiations : HeightL = c[1] /\ BucketSizeZ = c[2]
    /\ oram = PathORAM([i \in 0..(block_count_N - 1) |-> 0])
    /\ worldsA = InitialWorlds
    /\ worldsB = InitialWorlds
    /\ callsAB = <<<<>>, <<>>>>
    /\ NoCall
    /\ NoTwin
    /\ NoPath

(* One more call of each sequence, made in every world *)
OblStep ==
    /\ Len(callsAB[1]) < MaxOblOps
    /\ \E ca \in ValidCalls : \E cb \in ValidCalls :
          /\ worldsA' = Advance(worldsA, ca)
          /\ worldsB' = Advance(worldsB, cb)
          /\ callsAB' = <<Append(callsAB[1], ca), Append(callsAB[2], cb)>>
    /\ UNCHANGED <<HeightL, BucketSizeZ, oram, calls, req, status, result,
                   trace, pos, drawn, written, seeds, oram2, touched, path>>

NextObl == OblStep

SpecObl == InitObl /\ [][NextObl]_vars

----------------------------------------------------------------------------
(* getNodeOnPath on its own, for trees of every height up to MaxHeight:    *)
(* each step calls it on a leaf the generator can draw and a level of the  *)
(* tree (the calls of lines 135, 150, 181 and 187).                        *)

InitPath ==
    /\ HeightL \in 0..MaxHeight
    /\ BucketSizeZ \in {c[2] : c \in Instantiations}
    /\ oram = EmptyStash
    /\ path = <<>>
    /\ NoCall
    /\ NoTwin
    /\ NoWorlds

PathStep ==
    /\ \E leaf \in leaf_dist : \E height \in 0..HeightL :
          path' = [leaf |-> leaf, height |-> height,
                   node |-> getNodeOnPath(leaf, height)]
    /\ UNCHANGED <<HeightL, BucketSizeZ, oram, calls, req, status, result,
                   trace, pos, drawn, written, seeds, oram2, touched,
                   worldsA, worldsB, callsAB>>

NextPath == PathStep

SpecPath == InitPath /\ [][NextPath]_vars

----------------------------------------------------------------------------
(* Where the blocks are *)

TreeSlots == {<<n, z>> : n \in 0..(bucket_count - 1), z \in 0..(BucketSizeZ - 1)}

SlotsOf(e, id) == {s \in TreeSlots : e.buckets[s[1]][s[2]].id = id}

TreeIds(e) ==
    {e.buckets[s[1]][s[2]].id : s \in TreeSlots} \ {invalid_block}

----------------------------------------------------------------------------
(* C1: a read of an id that has been written returns the payload of the    *)
(* most recent write to that id: this holds of the read that just          *)
(* completed, and of the read of every written id that could come next,    *)
(* whatever leaf the generator draws.                                      *)
C1_ReadReturnsLastWrite ==
    /\ (status = "ok" /\ req.op = "Read" /\ req.blk \in DOMAIN written)
          => result = written[req.blk]
    /\ \A id \in DOMAIN written : \A r \in leaf_dist :
          access(oram, "Read", id, ZeroBlock, r).b = written[id]

(* A read, after three calls, of a block that was overwritten with a       *)
(* non-zero payload while another block was written too *)
C1_Witness ==
    /\ calls = MaxOps /\ status = "ok" /\ req.op = "Read"
    /\ req.blk \in DOMAIN written /\ written[req.blk] # ZeroBlock
    /\ result = written[req.blk]
    /\ HeightL = 1
    /\ \E id \in DOMAIN written : id # req.blk

(* C2: a read of an id in [0, N) that was never written returns the       *)
(* all-zero payload, for the read that just completed and for every read   *)
(* of a never-written id that could come next, whatever happened before.   *)
C2_UnwrittenReadsZero ==
    /\ (status = "ok" /\ req.op = "Read" /\ req.blk \notin DOMAIN written)
          => result = ZeroBlock
    /\ \A id \in ValidIds \ DOMAIN written : \A r \in leaf_dist :
          access(oram, "Read", id, ZeroBlock, r).b = ZeroBlock

(* A repeated read of a never-written id, already held by the engine,      *)
(* while another id holds a non-zero payload *)
C2_Witness ==
    /\ calls = MaxOps /\ status = "ok" /\ req.op = "Read"
    /\ req.blk \notin DOMAIN written /\ result = ZeroBlock
    /\ \E id \in DOMAIN written : written[id] # ZeroBlock
    /\ Cardinality(TreeIds(oram) \cup DOMAIN oram.stash) >= 2

(* C3: a call with blk >= N ends with OutOfRange and leaves buckets,       *)
(* position map, stash and the generator exactly as they were.             *)
C3_OutOfRangeUnchanged ==
    [][(calls' = calls + 1 /\ req'.blk >= block_count_N)
          => (status' = "OutOfRange" /\ oram' = oram)]_vars

(* An out-of-range call made on an engine that holds blocks *)
C3_Witness ==
    /\ status = "OutOfRange" /\ req.blk >= block_count_N
    /\ calls = MaxOps
    /\ TreeIds(oram) # {}

(* C4: every call with blk in [0, N) succeeds: the call that just          *)
(* completed did, and so would any call that could come next.              *)
C4_InRangeSucceeds ==
    /\ (req.op # "none" /\ req.blk < block_count_N) => status = "ok"
    /\ \A id \in ValidIds : \A r \in leaf_dist :
          /\ access(oram, "Read", id, ZeroBlock, r).status = "ok"
          /\ \A b \in Payloads : access(oram, "Write", id, b, r).status = "ok"

(* Successful calls on N - 1, never written, read and written *)
C4_Witness ==
    /\ status = "ok" /\ req.blk = block_count_N - 1 /\ calls = MaxOps
    /\ HeightL = 1
    /\ req.op = "Read" /\ req.blk \notin DOMAIN written

(* C5: every id stored in a bucket is stored on the root-to-leaf path of   *)
(* its position-map leaf.                                                  *)
C5_BlockPath ==
    \A s \in TreeSlots :
        LET id == oram.buckets[s[1]][s[2]].id
        IN  id # invalid_block
               => \E h \in 0..HeightL :
                     s[1] = getNodeOnPath(oram.position_map[id], h)

(* Blocks held in a leaf bucket and in the root after the block just       *)
(* accessed was remapped to another leaf *)
C5_Witness ==
    /\ HeightL = 1 /\ status = "ok"
    /\ oram.position_map[req.blk] # pos
    /\ \E s \in TreeSlots : s[1] = 0 /\ oram.buckets[s[1]][s[2]].id # invalid_block
    /\ \E s \in TreeSlots : s[1] > 0 /\ oram.buckets[s[1]][s[2]].id # invalid_block

(* C6: every id is held in at most one place among the tree slots and the  *)
(* stash.                                                                  *)
C6_NoDuplication ==
    \A id \in ValidIds :
        Cardinality(SlotsOf(oram, id)) + (IF id \in DOMAIN oram.stash THEN 1 ELSE 0) <= 1

(* Blocks both in the tree and left in the stash after an access *)
C6_Witness ==
    /\ status = "ok"
    /\ DOMAIN oram.stash # {}
    /\ Cardinality(TreeIds(oram)) >= 2

(* C8: from the same engine state and with the same draw, a Read and a     *)
(* Write of the same id consume the same number of draws and touch the     *)
(* same buckets in the same order.                                         *)
C8_ReadWriteSameTrace ==
    \A id \in ValidIds : \A r \in leaf_dist :
        \A rd \in {access(oram, "Read", id, ZeroBlock, r)} :
            \A b \in Payloads :
                \A wr \in {access(oram, "Write", id, b, r)} :
                    /\ rd.trace = wr.trace
                    /\ rd.mt = wr.mt
                    /\ rd.status = wr.status

(* A state from which a Read and a Write of one id leave different         *)
(* engines behind while touching the same buckets *)
C8_Witness ==
    /\ HeightL = 1 /\ calls >= 2 /\ DOMAIN oram.stash # {}
    /\ \E id \in ValidIds : \E r \in leaf_dist :
        LET rd == access(oram, "Read", id, ZeroBlock, r)
            wr == access(oram, "Write", id, MaxPayload, r)
        IN  /\ rd.trace = wr.trace
            /\ Len(rd.trace) = 2 * HeightL + 3
            /\ Engine(rd) # Engine(wr)

(* C10: a successful access shows one remap, then the L+1 bucket reads     *)
(* from the root down to the old leaf, then the L+1 bucket writes from     *)
(* the old leaf up to the root, and nothing else.                          *)
C10_EventOrder ==
    status = "ok" =>
        trace = [i \in 1..(2 * HeightL + 3) |->
                    IF i = 1 THEN <<"remap", req.blk>>
                    ELSE IF i <= HeightL + 2
                    THEN <<"read", getNodeOnPath(pos, i - 2)>>
                    ELSE <<"write", getNodeOnPath(pos, (2 * HeightL + 3) - i)>>]

(* A successful Write and a successful Read on a tree of height 1 *)
C10_Witness ==
    /\ status = "ok" /\ HeightL = 1 /\ pos = 1
    /\ trace = <<<<"remap", req.blk>>, <<"read", 0>>, <<"read", 2>>,
                 <<"write", 2>>, <<"write", 0>>>>
    /\ DOMAIN oram.stash # {}

C7_Oblivious ==
    /\ Cardinality(worldsA) = Cardinality(worldsB)
    /\ \A t \in {w.obs : w \in worldsA} \cup {w.obs : w \in worldsB} :
          Cardinality({w \in worldsA : w.obs = t})
             = Cardinality({w \in worldsB : w.obs = t})

(* Sequence A reads one id twice, sequence B writes two different ids; the *)
(* runs differ in their engines and show more than one trace *)
C7_Witness ==
    /\ HeightL = 1
    /\ Len(callsAB[1]) = MaxOblOps
    /\ callsAB[1][1] = callsAB[1][2] /\ callsAB[1][1].op = "Read"
    /\ callsAB[2][1].op = "Write" /\ callsAB[2][2].op = "Write"
    /\ callsAB[2][1].blk # callsAB[2][2].blk
    /\ Cardinality({w.obs : w \in worldsA}) > 1
    /\ {w.obs : w \in worldsA} = {w.obs : w \in worldsB}
    /\ {w.eng : w \in worldsA} # {w.eng : w \in worldsB}

----------------------------------------------------------------------------
(* C11: every successful access(_, id, _) draws from the generator exactly  *)
(* once and stores the draw in position_map[id]; the remap is the first     *)
(* event of the call, the L+1 bucket reads that follow it go along the leaf *)
(* position_map[id] held before the call, and no other entry of the         *)
(* position map changes.                                                    *)
C11_RemapOnceBeforeRead ==
    [][(calls' = calls + 1 /\ status' = "ok") =>
          /\ Len(drawn') = 1
          /\ oram'.mt = oram.mt + 1
          /\ oram'.position_map =
                [oram.position_map EXCEPT ![req'.blk] = drawn'[1]]
          /\ trace'[1] = <<"remap", req'.blk>>
          /\ \A i \in 2..Len(trace') : trace'[i][1] # "remap"
          /\ pos' = oram.position_map[req'.blk]
          /\ \A l \in 0..HeightL :
                trace'[l + 2] =
                    <<"read", getNodeOnPath(oram.position_map[req'.blk], l)>>
      ]_vars

C11_Witness ==
    /\ HeightL = 1
    /\ calls >= 2
    /\ status = "ok"
    /\ Len(drawn) = 1
    /\ drawn[1] # pos
    /\ oram.position_map[req.blk] = drawn[1]
    /\ trace[HeightL + 2] = <<"read", getNodeOnPath(pos, HeightL)>>

----------------------------------------------------------------------------
(* C12: after construction and after every access, every entry of the       *)
(* position map is a leaf index in [0, 2^L), and so is every value the      *)
(* generator has returned: leaf_dist{0, bucket_count / 2} ends at 2^L - 1.  *)
C12_LeafInRange ==
    /\ leaf_dist = 0..((2 ^ HeightL) - 1)
    /\ DOMAIN oram.position_map = ValidIds
    /\ \A id \in ValidIds : oram.position_map[id] \in 0..((2 ^ HeightL) - 1)
    /\ \A i \in 1..Len(drawn) : drawn[i] \in 0..((2 ^ HeightL) - 1)

C12_Witness ==
    /\ HeightL = 1
    /\ calls = MaxOps
    /\ status = "ok"
    /\ drawn = <<(2 ^ HeightL) - 1>>
    /\ \A id \in ValidIds : oram.position_map[id] = (2 ^ HeightL) - 1

----------------------------------------------------------------------------
(* C13 as stated: the engine never goes on with more than StashSafetyBound  *)
(* blocks in its stash, a call that leaves that many ends in StashOverflow. *)
C13_StashOverflowAborts ==
    Cardinality(DOMAIN oram.stash) > StashSafetyBound =>
        status = "StashOverflow"

(* C13, amended: the engine has no stash bound and no StashOverflow error.  *)
(* A call ends in success or in OutOfRange and in nothing else, the stash   *)
(* (a std::map keyed by id) never holds more than N blocks, and while it    *)
(* holds more than StashSafetyBound blocks every in-range call still        *)
(* succeeds.                                                                *)
C13_NoStashBound ==
    /\ status \in {"none", "ok", "OutOfRange"}
    /\ Cardinality(DOMAIN oram.stash) <= block_count_N
    /\ Cardinality(DOMAIN oram.stash) > StashSafetyBound =>
          \A op \in Op : \A blk \in ValidIds : \A b \in Payloads :
             \A r \in leaf_dist :
                access(oram, op, blk, b, r).status = "ok"

C13_Witness ==
    /\ status = "ok"
    /\ calls = MaxOps
    /\ Cardinality(DOMAIN oram.stash) > StashSafetyBound
    /\ \E blk \in DOMAIN oram.stash \cap DOMAIN written :
          /\ written[blk] # ZeroBlock
          /\ \E r \in leaf_dist :
                access(oram, "Read", blk, ZeroBlock, r).b = written[blk]

----------------------------------------------------------------------------
(* C14: with L = 0 and Z = 1 the tree is one bucket of one slot and N = 1;  *)
(* every call on id 0 succeeds, reads and writes bucket 0 and no other, and *)
(* a read returns the last payload written to id 0, or the zero payload     *)
(* when nothing was written yet.                                            *)
C14_Degenerate ==
    (HeightL = 0 /\ BucketSizeZ = 1) =>
        /\ bucket_count = 1
        /\ block_count_N = 1
        /\ DOMAIN oram.buckets = {0}
        /\ (calls > 0 /\ req.blk = 0) =>
              /\ status = "ok"
              /\ trace = <<<<"remap", 0>>, <<"read", 0>>, <<"write", 0>>>>
              /\ req.op = "Read" =>
                    result = IF 0 \in DOMAIN written THEN written[0]
                             ELSE ZeroBlock

C14_Witness ==
    /\ HeightL = 0
    /\ BucketSizeZ = 1
    /\ calls = MaxOps
    /\ status = "ok"
    /\ req.op = "Read"
    /\ 0 \in DOMAIN written
    /\ result = written[0]
    /\ result # ZeroBlock
    /\ oram.buckets[0][0] = [id |-> 0, data |-> result]

----------------------------------------------------------------------------
(* C15: in the write phase of a successful access with old leaf p, taking   *)
(* the levels h = L down to 0, the bucket written at getNodeOnPath(p, h)    *)
(* holds min(|C_h|, Z) blocks, where C_h is the set of ids still in the     *)
(* stash (those of the stash before the call, of the buckets read, and the  *)
(* accessed id, less the ids written at deeper levels) whose leaf after the *)
(* remap passes through that node; each written block is one of C_h with    *)
(* its stash payload, the other slots are empty, and the stash after the    *)
(* call is what the levels did not take.                                    *)
C15_WritePathPacking ==
    [][(calls' = calls + 1 /\ status' = "ok") =>
        LET blk == req'.blk
            p == pos'
            onPath == {getNodeOnPath(p, h) : h \in 0..HeightL}
            slots == onPath \X (0..(BucketSizeZ - 1))
            full == {s \in slots : oram.buckets[s[1]][s[2]].id # invalid_block}
            held == DOMAIN oram.stash \cup {blk}
                       \cup {oram.buckets[s[1]][s[2]].id : s \in full}
            payload(id) ==
                IF id = blk /\ req'.op = "Write" THEN req'.b
                ELSE IF id \in DOMAIN oram.stash THEN oram.stash[id]
                ELSE IF \E s \in full : oram.buckets[s[1]][s[2]].id = id
                THEN LET s == CHOOSE s \in full :
                                 oram.buckets[s[1]][s[2]].id = id
                     IN  oram.buckets[s[1]][s[2]].data
                ELSE ZeroBlock
            written_at(h) ==
                {oram'.buckets[getNodeOnPath(p, h)][z].id :
                    z \in 0..(BucketSizeZ - 1)} \ {invalid_block}
            deeper(h) == UNION {written_at(k) : k \in (h + 1)..HeightL}
            C(h) == {id \in held \ deeper(h) :
                        getNodeOnPath(oram'.position_map[id], h)
                            = getNodeOnPath(p, h)}
        IN  /\ \A h \in 0..HeightL :
                 LET bucket == oram'.buckets[getNodeOnPath(p, h)]
                     n == IF Cardinality(C(h)) < BucketSizeZ
                          THEN Cardinality(C(h)) ELSE BucketSizeZ
                 IN  /\ written_at(h) \subseteq C(h)
                     /\ Cardinality(written_at(h)) = n
                     /\ \A z \in 0..(BucketSizeZ - 1) :
                           IF z < n
                           THEN /\ bucket[z].id # invalid_block
                                /\ bucket[z].data = payload(bucket[z].id)
                           ELSE bucket[z] = IDBlock
            /\ DOMAIN oram'.stash = held \ deeper(-1)
            /\ \A id \in DOMAIN oram'.stash : oram'.stash[id] = payload(id)
      ]_vars

C15_Witness ==
    /\ HeightL = 1
    /\ calls = MaxOps
    /\ status = "ok"
    /\ DOMAIN oram.stash # {}
    /\ oram.buckets[getNodeOnPath(pos, 1)][0].id # invalid_block
    /\ oram.buckets[getNodeOnPath(pos, 0)][0].id # invalid_block
    /\ oram.buckets[getNodeOnPath(pos, 1)][0].data # ZeroBlock

----------------------------------------------------------------------------
(* C16: for every leaf l in [0, 2^L) and level h in [0, L],                 *)
(* getNodeOnPath(l, h) is the heap parent (i - 1) div 2 applied L - h times *)
(* to l + 2^L - 1: at h = L it is l + 2^L - 1, at h = 0 it is the root 0,   *)
(* at h < L it is the parent of getNodeOnPath(l, h + 1), and it is always   *)
(* an index in [0, bucket_count).                                           *)
C16_PathIndexLaws ==
    path # <<>> =>
        LET leaf_count == 2 ^ HeightL
            up[k \in 0..(HeightL - path.height)] ==
                IF k = 0 THEN path.leaf + leaf_count - 1
                ELSE (up[k - 1] - 1) \div 2
        IN  /\ path.leaf \in 0..(leaf_count - 1)
            /\ path.node = up[HeightL - path.height]
            /\ path.height = HeightL => path.node = path.leaf + leaf_count - 1
            /\ path.height = 0 => path.node = 0
            /\ path.height < HeightL =>
                  path.node =
                     (getNodeOnPath(path.leaf, path.height + 1) - 1) \div 2
            /\ path.node \in 0..(bucket_count - 1)

C16_Witness ==
    /\ path # <<>>
    /\ HeightL = MaxHeight
    /\ path.leaf = (2 ^ HeightL) - 1
    /\ path.height = 1
    /\ path.node = 2

----------------------------------------------------------------------------
(* C17: whatever id the next access is for, the non-empty slots its read    *)
(* phase finds on the path of position_map[id] carry ids that are pairwise  *)
(* different and not in the stash, so readPath's stash.emplace (insert      *)
(* unless present) leaves the same stash as an insert that replaces.        *)
C17_NoStashCollision ==
    \A blk \in ValidIds :
        LET p == oram.position_map[blk]
            onPath == {getNodeOnPath(p, h) : h \in 0..HeightL}
            full == {s \in onPath \X (0..(BucketSizeZ - 1)) :
                        oram.buckets[s[1]][s[2]].id # invalid_block}
            idOf(s) == oram.buckets[s[1]][s[2]].id
            replaced ==
                [id \in DOMAIN oram.stash \cup {idOf(s) : s \in full} |->
                    IF \E s \in full : idOf(s) = id
                    THEN LET s == CHOOSE s \in full : idOf(s) = id
                         IN  oram.buckets[s[1]][s[2]].data
                    ELSE oram.stash[id]]
        IN  /\ \A s \in full : idOf(s) \notin DOMAIN oram.stash
            /\ \A s, t \in full : idOf(s) = idOf(t) => s = t
            /\ readPath([buckets |-> oram.buckets, stash |-> oram.stash,
                         trace |-> <<>>], p).stash = replaced

C17_Witness ==
    /\ HeightL = 1
    /\ calls = 2
    /\ status = "ok"
    /\ DOMAIN oram.stash # {}
    /\ \E blk \in ValidIds :
          LET p == oram.position_map[blk]
          IN  /\ oram.buckets[getNodeOnPath(p, 0)][0].id # invalid_block
              /\ oram.buckets[getNodeOnPath(p, 0)][0].data # ZeroBlock
              /\ oram.buckets[getNodeOnPath(p, 1)][0].id = invalid_block

----------------------------------------------------------------------------
(* C18: no block is dropped. The tree and the stash start empty; a          *)
(* successful access adds the accessed id to the ids held in the tree or    *)
(* the stash and removes none, so the ids held are the ids accessed so far; *)
(* an id leaves the stash only into a bucket on the accessed path; a failed *)
(* call changes nothing; and whatever the buckets have no room for stays in *)
(* the stash, however many blocks that is.                                  *)
C18_NoBlockDropped ==
    /\ (calls = 0 => TreeIds(oram) \cup DOMAIN oram.stash = {})
    /\ [][(calls' = calls + 1) =>
            LET held == TreeIds(oram) \cup DOMAIN oram.stash
                held_after == TreeIds(oram') \cup DOMAIN oram'.stash
                onPath == {getNodeOnPath(pos', h) : h \in 0..HeightL}
            IN  IF status' = "ok"
                THEN /\ held_after = held \cup {req'.blk}
                     /\ \A id \in DOMAIN oram.stash \ DOMAIN oram'.stash :
                           \E n \in onPath : \E z \in 0..(BucketSizeZ - 1) :
                              oram'.buckets[n][z] =
                                 [id |-> id,
                                  data |-> IF req'.op = "Write" /\ id = req'.blk
                                           THEN req'.b ELSE oram.stash[id]]
                     /\ Cardinality(DOMAIN oram'.stash) =
                           Cardinality(held_after)
                              - Cardinality(TreeIds(oram'))
                ELSE held_after = held
        ]_vars

C18_Witness ==
    /\ calls = MaxOps
    /\ status = "ok"
    /\ Cardinality(TreeIds(oram) \cup DOMAIN oram.stash) = MaxOps
    /\ DOMAIN oram.stash # {}
    /\ req.blk \in TreeIds(oram)

----------------------------------------------------------------------------
(* C19: after a successful access with old leaf p, a block still in the     *)
(* stash whose leaf passes through the node of p's path at level h finds    *)
(* that bucket with all Z slots taken; as every leaf passes through the     *)
(* root, a non-empty stash after an access means a full root bucket.        *)
C19_EvictionMaximal ==
    (calls > 0 /\ status = "ok") =>
        /\ \A id \in DOMAIN oram.stash : \A h \in 0..HeightL :
              getNodeOnPath(oram.position_map[id], h) = getNodeOnPath(pos, h)
                 => \A z \in 0..(BucketSizeZ - 1) :
                       oram.buckets[getNodeOnPath(pos, h)][z].id
                          # invalid_block
        /\ DOMAIN oram.stash # {} =>
              \A z \in 0..(BucketSizeZ - 1) :
                 oram.buckets[0][z].id # invalid_block

C19_Witness ==
    /\ HeightL = 1
    /\ status = "ok"
    /\ \E id \in DOMAIN oram.stash :
          /\ oram.position_map[id] = pos
          /\ oram.buckets[getNodeOnPath(pos, 1)][0].id # invalid_block
          /\ oram.buckets[0][0].id # invalid_block

----------------------------------------------------------------------------
(* C20: an access with old leaf p leaves every bucket that is not on the    *)
(* path of p as it was, slot by slot, ids and payloads, and the tree keeps  *)
(* its bucket_count buckets of Z slots.                                     *)
C20_Frame ==
    [][(calls' = calls + 1) =>
          /\ DOMAIN oram'.buckets = 0..(bucket_count - 1)
          /\ \A n \in 0..(bucket_count - 1) :
                DOMAIN oram'.buckets[n] = 0..(BucketSizeZ - 1)
          /\ \A n \in 0..(bucket_count - 1) :
                (status' # "ok"
                   \/ n \notin {getNodeOnPath(pos', h) : h \in 0..HeightL})
                   => oram'.buckets[n] = oram.buckets[n]
      ]_vars

C20_Witness ==
    /\ HeightL = 1
    /\ calls = MaxOps
    /\ status = "ok"
    /\ \E n \in 0..(bucket_count - 1) :
          /\ n \notin {getNodeOnPath(pos, h) : h \in 0..HeightL}
          /\ oram.buckets[n][0].id # invalid_block
          /\ oram.buckets[n][0].data # ZeroBlock
    /\ oram.buckets[getNodeOnPath(pos, HeightL)][0].id # invalid_block

====
